---- MODULE Spec2Model ----
(***************************************************************************)
(* State-machine model of the AudioMixer class of src/app.js: the registry *)
(* of ambient sounds and melodies, the Web Audio nodes created by the play *)
(* calls, the connections of the mix graph and the "ended" events the      *)
(* audio engine delivers to the page.                                      *)
(***************************************************************************)
EXTENDS Integers, Sequences, FiniteSets, TLC

\* ------------------------------------------------------------------ bounds
\* Source/gain node pairs alive at the same time (see Collect).
MaxPlays == 2

\* Logical ids used by the callers; any of them may or may not be registered.
SoundIds == {"rain"}
MelodyIds == {"piano", "flute"}
\* Percent values passed to setVolume.
Percents == {50}

\* Percent values passed to setVolume where the volume is what is checked.
VolumePercents == {0, 50, 100}

\* setTheme calls in progress at the same time.
MaxTasks == 2

\* Frame callbacks scheduled at the same time.
MaxScheduled == 2

\* Pending timeouts of VideoBackground.hide.
MaxHideTimers == 1

\* Theme names passed to setTheme: one of the manifest, one that is not in it.
Themes == {"light", "retro"}

\* The part of the manifest of theme "light" whose ids the model has.
ManifestMelodies == <<"piano">>
ManifestAmbients == <<"rain">>

\* ------------------------------------------------------- program constants
DefaultVolume == 70      \* volume: 0.7, in percent
MelodyGain == 50         \* gainNode.gain.value = 0.5, in percent
MasterGainValue == 80    \* masterGain.gain.value = 0.8, in percent
FftSize == 256           \* analyser.fftSize = 256

\* --------------------------------------------------------------- encodings
NullNode == <<"null", 0>>        \* a null node reference
NoId == "null"                   \* activeMelody === null; no handler
Destination == <<"destination", 0>>
SourceNode(k) == <<"source", k>>
GainNode(k) == <<"gain", k>>

\* Map.get(id) === undefined: the id is not registered.
NoSound == [buffer |-> NoId, isLoop |-> FALSE, source |-> NullNode,
            gainNode |-> NullNode, isPlaying |-> FALSE, volume |-> 0]
NoMelody == [buffer |-> NoId, source |-> NullNode, gainNode |-> NullNode,
             isPlaying |-> FALSE]

VARIABLES
    audioContext,   \* "null" or "AudioContext"
    masterGain,     \* NullNode or the master gain node
    analyser,       \* NullNode or the analyser node
    dataArray,      \* <<"null", 0>> or <<"Uint8Array", length>>
    stages,         \* the master gain / analyser nodes created by init, each with
                    \* its setting (gain.value in percent, resp. fftSize)
    sounds,         \* this.sounds: SoundIds -> voice object, or NoSound
    melodies,       \* this.melodies: MelodyIds -> voice object, or NoMelody
    activeMelody,   \* this.activeMelody
    srcs,           \* the live buffer source nodes, oldest first
    gains,          \* gain.value of the per-voice gain nodes, in percent (gain
                    \* node k is the one source node k is connected to)
    edges,          \* connections of the audio graph: <<from, to>>
    events,         \* "ended" events queued by the audio engine, oldest first
    last,           \* the last call of a mixer method by its caller that
                    \* returned: [op, id, val]; the page's handlers leave it
    fault,          \* TRUE once a call has thrown to its caller
    \* ---- the page around the mixer (AmbientMixerApp and its parts)
    isInitialized,  \* AmbientMixerApp.isInitialized
    contextState,   \* audioContext.state: "none" (no context), "suspended", "running"
    resuming,       \* TRUE while a promise of audioContext.resume() is pending
    currentTheme,   \* AmbientMixerApp.currentTheme
    loading,        \* TRUE while the loading overlay is shown
    loadedCount,    \* AssetLoader.loadedCount
    totalCount,     \* AssetLoader.totalCount
    progress,       \* the last report passed to onProgress: <<loaded, total>>
    callbacks,      \* TRUE once onProgress and onComplete are set
    animationId,    \* Visualizer.animationId: "null" or "frame"
    scheduled,      \* number of frame callbacks requested and not yet run
    videos,         \* the themes VideoBackground.videos has a url for
    video,          \* the video element: [display, opacity]
    videoPlaying,   \* VideoBackground.isPlaying
    hideTimers,     \* number of pending timeouts set by VideoBackground.hide
    tasks           \* the setTheme calls in progress, one record per slot

appVars == <<isInitialized, contextState, resuming, currentTheme, loading,
             loadedCount, totalCount, progress, callbacks, animationId, scheduled,
             videos, video, videoPlaying, hideTimers, tasks>>

vars == <<audioContext, masterGain, analyser, dataArray, stages, sounds, melodies,
          activeMelody, srcs, gains, edges, events, last, fault, appVars>>

\* The part of the state the playback methods read and write; threw is the
\* outcome of the call being computed.
Mixer == [sounds |-> sounds, melodies |-> melodies, activeMelody |-> activeMelody,
          srcs |-> srcs, gains |-> gains, edges |-> edges, events |-> events,
          threw |-> FALSE]

Commit(m) ==
    /\ sounds' = m.sounds
    /\ melodies' = m.melodies
    /\ activeMelody' = m.activeMelody
    /\ srcs' = m.srcs
    /\ gains' = m.gains
    /\ edges' = m.edges
    /\ events' = m.events

Returned(op, id, val) == last' = [op |-> op, id |-> id, val |-> val]

BoolStr(b) == IF b THEN "true" ELSE "false"

InSeq(x, q) == \E i \in DOMAIN q : q[i] = x

RECURSIVE Without(_, _)
Without(q, drop) ==
    IF q = <<>> THEN <<>>
    ELSE IF Head(q) \in drop THEN Without(Tail(q), drop)
    ELSE <<Head(q)>> \o Without(Tail(q), drop)

\* A slot without a setTheme call in progress.
IdleTask == [pc |-> "idle", theme |-> NoId, i |-> 0, reported |-> 0, fired |-> 0]

Init ==
    /\ audioContext = "null"
    /\ masterGain = NullNode
    /\ analyser = NullNode
    /\ dataArray = <<"null", 0>>
    /\ stages = {}
    /\ sounds = [id \in SoundIds |-> NoSound]
    /\ melodies = [id \in MelodyIds |-> NoMelody]
    /\ activeMelody = NoId
    /\ srcs = <<>>
    /\ gains = <<>>
    /\ edges = {}
    /\ events = <<>>
    /\ last = [op |-> "constructor", id |-> NoId, val |-> "undefined"]
    /\ fault = FALSE
    /\ isInitialized = FALSE
    /\ contextState = "none"
    /\ resuming = FALSE
    /\ currentTheme = NoId
    /\ loading = FALSE
    /\ loadedCount = 0
    /\ totalCount = 0
    /\ progress = <<0, 0>>
    /\ callbacks = FALSE
    /\ animationId = "null"
    /\ scheduled = 0
    /\ videos = {}
    /\ video = [display |-> "none", opacity |-> 0]
    /\ videoPlaying = FALSE
    /\ hideTimers = 0
    /\ tasks = [t \in 1..MaxTasks |-> IdleTask]

\* ------------------------------------------------------------ node helpers
\* node.disconnect(): removes every outgoing connection of the node.
Disconnect(m, n) == [m EXCEPT !.edges = {e \in m.edges : e[1] # n}]

\* source.stop(): a started source that is still playing stops; the engine then
\* queues its "ended" event.  Only sources whose onended handler can still be
\* observed are queued: the event of any other source changes nothing.
SourceStop(m, k) ==
    IF m.srcs[k].state = "playing"
    THEN [m EXCEPT !.srcs[k].state = "stopped",
                   !.events = IF m.srcs[k].onended # NoId
                              THEN Append(m.events, k) ELSE m.events]
    ELSE m

\* The engine releases a source/gain pair once nothing can reach it any more: no
\* registered voice refers to it, it has no connection, it is not playing and
\* no "ended" event of it is queued.
NodeAlive(m, k) ==
    \/ m.srcs[k].state = "playing"
    \/ InSeq(k, m.events)
    \/ \E e \in m.edges : e[1] \in {SourceNode(k), GainNode(k)}
                          \/ e[2] \in {SourceNode(k), GainNode(k)}
    \/ \E id \in SoundIds : \/ m.sounds[id].source = SourceNode(k)
                            \/ m.sounds[id].gainNode = GainNode(k)
    \/ \E id \in MelodyIds : \/ m.melodies[id].source = SourceNode(k)
                             \/ m.melodies[id].gainNode = GainNode(k)

\* The live pairs are numbered 1, 2, ... in the order of their creation: when a
\* pair is released, the pairs created after it move down by one, in the node
\* tables and in every reference to them.
Collect(m) ==
    LET alive == {k \in DOMAIN m.srcs : NodeAlive(m, k)}
        Rank(k) == Cardinality({j \in alive : j <= k})
        Old(i) == CHOOSE k \in alive : Rank(k) = i
        Ren(n) == IF n[1] \in {"source", "gain"} THEN <<n[1], Rank(n[2])>> ELSE n
    IN
    IF alive = DOMAIN m.srcs THEN m
    ELSE [m EXCEPT
            !.srcs = [i \in 1..Cardinality(alive) |-> m.srcs[Old(i)]],
            !.gains = [i \in 1..Cardinality(alive) |-> m.gains[Old(i)]],
            !.edges = {<<Ren(e[1]), Ren(e[2])>> : e \in m.edges},
            !.events = [i \in DOMAIN m.events |-> Rank(m.events[i])],
            !.sounds = [id \in SoundIds |->
                          [m.sounds[id] EXCEPT !.source = Ren(@), !.gainNode = Ren(@)]],
            !.melodies = [id \in MelodyIds |->
                          [m.melodies[id] EXCEPT !.source = Ren(@), !.gainNode = Ren(@)]]]

\* createBufferSource + createGain + connect + start(0), as playSound and
\* playMelody do it: source k -> gain k -> analyser.
StartVoice(m, buf, loop, gain, handler) ==
    LET k == Len(m.srcs) + 1 IN
    [m EXCEPT !.srcs = Append(m.srcs, [buffer |-> buf, loop |-> loop,
                                       state |-> "playing", onended |-> handler]),
              !.gains = Append(m.gains, gain),
              !.edges = m.edges \cup {<<SourceNode(k), GainNode(k)>>,
                                      <<GainNode(k), analyser>>}]

\* ------------------------------------------------------------------- init
\* init without its guard: every call builds the stages again.
InitGuardMissing == FALSE

AlreadyInitialized == audioContext # "null"

\* The body of AudioMixer.init.
CreateStages ==
    IF AlreadyInitialized
       THEN UNCHANGED <<audioContext, masterGain, analyser, dataArray, stages, edges>>
       ELSE LET n == Cardinality({s \in stages : s.node[1] = "masterGain"}) + 1
                mg == <<"masterGain", n>>
                an == <<"analyser", n>>
            IN /\ audioContext' = "AudioContext"
               /\ masterGain' = mg
               /\ analyser' = an
               /\ stages' = stages \cup {[node |-> mg, setting |-> MasterGainValue],
                                          [node |-> an, setting |-> FftSize]}
               /\ edges' = edges \cup {<<mg, Destination>>, <<an, mg>>}
               /\ dataArray' = <<"Uint8Array", FftSize \div 2>>

init ==
    /\ CreateStages
    /\ Returned("init", NoId, "undefined")
    /\ UNCHANGED <<sounds, melodies, activeMelody, srcs, gains, events, fault>>
    /\ UNCHANGED appVars

\* ------------------------------------------------------- ambient playback
\* playSound without the check that the id is registered.
DoPlaySoundNoLookupCheck(m, id) ==
    LET snd == m.sounds[id] IN
    IF snd.isPlaying THEN m
    ELSE IF audioContext = "null" THEN [m EXCEPT !.threw = TRUE]
    ELSE LET k == Len(m.srcs) + 1
             m1 == StartVoice(m, snd.buffer, snd.isLoop, snd.volume, id)
         IN [m1 EXCEPT !.sounds[id].source = SourceNode(k),
                       !.sounds[id].gainNode = GainNode(k),
                       !.sounds[id].isPlaying = TRUE]

DoPlaySound(m, id) ==
    LET snd == m.sounds[id] IN
    IF snd = NoSound \/ snd.isPlaying THEN m
    ELSE IF audioContext = "null" THEN [m EXCEPT !.threw = TRUE]
    ELSE LET k == Len(m.srcs) + 1
             m1 == StartVoice(m, snd.buffer, snd.isLoop, snd.volume, id)
         IN [m1 EXCEPT !.sounds[id].source = SourceNode(k),
                       !.sounds[id].gainNode = GainNode(k),
                       !.sounds[id].isPlaying = TRUE]

DoStopSound(m, id) ==
    LET snd == m.sounds[id] IN
    IF snd = NoSound \/ ~snd.isPlaying THEN m
    ELSE LET m1 == IF snd.source # NullNode
                   THEN Disconnect(SourceStop(m, snd.source[2]), snd.source)
                   ELSE m
             m2 == IF snd.gainNode # NullNode THEN Disconnect(m1, snd.gainNode) ELSE m1
         IN [m2 EXCEPT !.sounds[id].source = NullNode,
                       !.sounds[id].gainNode = NullNode,
                       !.sounds[id].isPlaying = FALSE]

\* toggleSound that starts the voice whatever its playing flag says.
DoToggleSoundAlwaysPlays(m, id) ==
    IF m.sounds[id] = NoSound THEN m ELSE DoPlaySound(m, id)

DoToggleSound(m, id) ==
    IF m.sounds[id] = NoSound THEN m
    ELSE IF m.sounds[id].isPlaying THEN DoStopSound(m, id) ELSE DoPlaySound(m, id)

ToggleResult(m, id) ==
    IF m.sounds[id] = NoSound THEN "false" ELSE BoolStr(m.sounds[id].isPlaying)

\* setVolume that does not store the level of a voice it can ramp.
DoSetVolumeRampOnly(m, id, volume) ==
    IF m.sounds[id] = NoSound THEN m
    ELSE LET g == m.sounds[id].gainNode
         IN IF g # NullNode THEN [m EXCEPT !.gains[g[2]] = volume]
            ELSE [m EXCEPT !.sounds[id].volume = volume]

\* setVolume: gain values are kept in hundredths, so volume / 100 of a percent
\* value is that number of hundredths; the level is stored on the voice and
\* the live gain node, if any, is ramped to it (the end value of the 100 ms
\* ramp is what the model keeps).
DoSetVolume(m, id, volume) ==
    IF m.sounds[id] = NoSound THEN m
    ELSE LET m1 == [m EXCEPT !.sounds[id].volume = volume]
             g == m.sounds[id].gainNode
         IN IF g # NullNode THEN [m1 EXCEPT !.gains[g[2]] = volume] ELSE m1

\* -------------------------------------------------------- melody playback
\* stopMelody that leaves the active-melody pointer as it is.
DoStopMelodyKeepsPointer(m, id) ==
    LET mel == m.melodies[id] IN
    IF mel = NoMelody \/ ~mel.isPlaying THEN m
    ELSE LET m1 == IF mel.source # NullNode
                   THEN Disconnect(SourceStop(m, mel.source[2]), mel.source)
                   ELSE m
             m2 == IF mel.gainNode # NullNode THEN Disconnect(m1, mel.gainNode) ELSE m1
         IN [m2 EXCEPT !.melodies[id].source = NullNode,
                       !.melodies[id].gainNode = NullNode,
                       !.melodies[id].isPlaying = FALSE]

DoStopMelody(m, id) ==
    LET mel == m.melodies[id] IN
    IF mel = NoMelody \/ ~mel.isPlaying THEN m
    ELSE LET m1 == IF mel.source # NullNode
                   THEN Disconnect(SourceStop(m, mel.source[2]), mel.source)
                   ELSE m
             m2 == IF mel.gainNode # NullNode THEN Disconnect(m1, mel.gainNode) ELSE m1
         IN [m2 EXCEPT !.melodies[id].source = NullNode,
                       !.melodies[id].gainNode = NullNode,
                       !.melodies[id].isPlaying = FALSE,
                       !.activeMelody = IF m.activeMelody = id THEN NoId
                                        ELSE m.activeMelody]

DoPlayMelody(m, id) ==
    LET m0 == IF m.activeMelody # NoId THEN DoStopMelody(m, m.activeMelody) ELSE m
        mel == m0.melodies[id]
    IN
    IF mel = NoMelody THEN m0
    ELSE IF audioContext = "null" THEN [m0 EXCEPT !.threw = TRUE]
    ELSE LET k == Len(m0.srcs) + 1
             m1 == StartVoice(m0, mel.buffer, TRUE, MelodyGain, NoId)
         IN [m1 EXCEPT !.melodies[id].source = SourceNode(k),
                       !.melodies[id].gainNode = GainNode(k),
                       !.melodies[id].isPlaying = TRUE,
                       !.activeMelody = id]

\* ----------------------------------------------------------------- stopAll
RECURSIVE StopSounds(_, _)
StopSounds(m, ids) ==
    IF ids = {} THEN m
    ELSE LET id == CHOOSE x \in ids : TRUE
         IN StopSounds(DoStopSound(m, id), ids \ {id})

RECURSIVE StopMelodies(_, _)
StopMelodies(m, ids) ==
    IF ids = {} THEN m
    ELSE LET id == CHOOSE x \in ids : TRUE
         IN StopMelodies(DoStopMelody(m, id), ids \ {id})

\* stopAll that forgets the melodies.
DoStopAllSoundsOnly(m) ==
    StopSounds(m, {id \in SoundIds : m.sounds[id] # NoSound})

\* forEach visits the registered ids only; the stops of different ids touch
\* different objects and nodes, so the order of the visit does not matter.
DoStopAll(m) ==
    StopMelodies(StopSounds(m, {id \in SoundIds : m.sounds[id] # NoSound}),
                 {id \in MelodyIds : m.melodies[id] # NoMelody})

\* ------------------------------------------------- the synchronous methods
\* A call of a playback method: the state becomes m, the call returns val (or
\* throws).  A call that would need more than MaxPlays live node pairs is left
\* out of the model.
Call(op, id, m, val) ==
    /\ Len(Collect(m).srcs) <= MaxPlays
    /\ Commit(Collect(m))
    /\ fault' = (fault \/ m.threw)
    /\ Returned(op, id, IF m.threw THEN "throws" ELSE val)
    /\ UNCHANGED <<audioContext, masterGain, analyser, dataArray, stages>>
    /\ UNCHANGED appVars

playSound(id) == Call("playSound", id, DoPlaySound(Mixer, id), "undefined")

stopSound(id) == Call("stopSound", id, DoStopSound(Mixer, id), "undefined")

toggleSound(id) ==
    LET m == DoToggleSound(Mixer, id) IN Call("toggleSound", id, m, ToggleResult(m, id))

setVolume(id, volume) ==
    Call("setVolume", id, DoSetVolume(Mixer, id, volume), "undefined")

playMelody(id) == Call("playMelody", id, DoPlayMelody(Mixer, id), "undefined")

stopMelody(id) == Call("stopMelody", id, DoStopMelody(Mixer, id), "undefined")

stopAll == Call("stopAll", NoId, DoStopAll(Mixer), "undefined")

\* getFrequencyData without the test of the analyser.
getFrequencyDataUnguarded ==
    /\ Returned("getFrequencyData", NoId, "dataArray")
    /\ UNCHANGED <<audioContext, masterGain, analyser, dataArray, stages, sounds,
                   melodies, activeMelody, srcs, gains, edges, events, fault>>
    /\ UNCHANGED appVars

\* getFrequencyData: refreshes the snapshot buffer in place and returns it.
getFrequencyData ==
    /\ Returned("getFrequencyData", NoId,
                IF analyser # NullNode THEN "dataArray" ELSE "null")
    /\ UNCHANGED <<audioContext, masterGain, analyser, dataArray, stages, sounds,
                   melodies, activeMelody, srcs, gains, edges, events, fault>>
    /\ UNCHANGED appVars

\* ---------------------------------------------------------------- loading
\* this.sounds.set(id, {...}) with a new object.  The object registered before
\* under the id, if any, is no longer reachable from the registry: only the
\* onended handlers of the sources started for it still hold it, and what they
\* write to it can no longer be read.  Those handlers are therefore dropped
\* (with their queued events); the nodes themselves stay as they are.
RegisterSound(m, id, isLoop) ==
    LET orphans == {k \in DOMAIN m.srcs : m.srcs[k].onended = id} IN
    [m EXCEPT !.sounds[id] = [buffer |-> id, isLoop |-> isLoop, source |-> NullNode,
                              gainNode |-> NullNode, isPlaying |-> FALSE,
                              volume |-> DefaultVolume],
              !.srcs = [k \in DOMAIN m.srcs |->
                           IF k \in orphans THEN [m.srcs[k] EXCEPT !.onended = NoId]
                           ELSE m.srcs[k]],
              !.events = Without(m.events, orphans)]

\* this.melodies.set(id, {...}) with a new object.
RegisterMelody(m, id) ==
    [m EXCEPT !.melodies[id] = [buffer |-> id, source |-> NullNode,
                                gainNode |-> NullNode, isPlaying |-> FALSE]]

\* A load that gets past the decode call without an audioContext.
DecodeCallNeverThrows == FALSE

\* this.audioContext.decodeAudioData(...) on a null audioContext is a TypeError,
\* thrown inside the try block.
DecodeCallThrows == audioContext = "null"

\* The catch block: the promise resolves to false, nothing else changes.
LoadFailed(op, id) ==
    /\ Returned(op, id, "false")
    /\ UNCHANGED <<audioContext, masterGain, analyser, dataArray, stages, sounds,
                   melodies, activeMelody, srcs, gains, edges, events, fault>>
    /\ UNCHANGED appVars

\* loadSound(id, url, isLoop) and loadMelody(id, url) are async.  Up to the
\* decode call they read and write nothing of the mixer, so the step of the
\* model is the rest of the call, from the decode call on: the url decides
\* whether the fetch, the body read or the decode rejected (ok = FALSE); a
\* decode call on a null audioContext throws; both end in the catch block.
\* Otherwise the voice is registered and the promise resolves to true.  The
\* decode call and the registration are one step because audioContext, the only
\* thing the decode call reads, never goes back to null.
loadSound(id, isLoop, ok) ==
    IF ~ok \/ DecodeCallThrows
    THEN LoadFailed("loadSound", id)
    ELSE /\ Commit(Collect(RegisterSound(Mixer, id, isLoop)))
         /\ Returned("loadSound", id, "true")
         /\ UNCHANGED <<audioContext, masterGain, analyser, dataArray, stages, fault>>
         /\ UNCHANGED appVars

loadMelody(id, ok) ==
    IF ~ok \/ DecodeCallThrows
    THEN LoadFailed("loadMelody", id)
    ELSE /\ Commit(Collect(RegisterMelody(Mixer, id)))
         /\ Returned("loadMelody", id, "true")
         /\ UNCHANGED <<audioContext, masterGain, analyser, dataArray, stages, fault>>
         /\ UNCHANGED appVars

\* ------------------------------------------------- the audio engine's side
\* A playing source that does not loop reaches the end of its buffer: the
\* engine queues its "ended" event.
naturalEnd(k) ==
    /\ k \in DOMAIN srcs
    /\ srcs[k].state = "playing"
    /\ ~srcs[k].loop
    /\ Commit(Collect([Mixer EXCEPT
            !.srcs[k].state = "finished",
            !.events = IF srcs[k].onended # NoId THEN Append(events, k) ELSE events]))
    /\ UNCHANGED <<audioContext, masterGain, analyser, dataArray, stages, last, fault>>
    /\ UNCHANGED appVars

\* The handler with its test of the loop flag inverted.
OnEndedHandlerInverted(m, id) ==
    IF m.sounds[id].isLoop THEN [m EXCEPT !.sounds[id].isPlaying = FALSE] ELSE m

\* The handler playSound attached to the source: it closes over the voice
\* object the source was started for.
OnEndedHandler(m, id) ==
    IF ~m.sounds[id].isLoop THEN [m EXCEPT !.sounds[id].isPlaying = FALSE] ELSE m

\* The oldest queued "ended" event is dispatched.
onended ==
    /\ events # <<>>
    /\ LET k == Head(events) IN
        /\ Commit(Collect(OnEndedHandler([Mixer EXCEPT !.events = Tail(events)],
                                         srcs[k].onended)))
        /\ Returned("onended", srcs[k].onended, "undefined")
    /\ UNCHANGED <<audioContext, masterGain, analyser, dataArray, stages, fault>>
    /\ UNCHANGED appVars

\* ------------------------------------------------------ the page: its parts
\* The part of the state of the page outside the mixer.
App == [isInitialized |-> isInitialized, contextState |-> contextState,
        resuming |-> resuming, currentTheme |-> currentTheme, loading |-> loading,
        loadedCount |-> loadedCount, totalCount |-> totalCount,
        progress |-> progress, callbacks |-> callbacks, animationId |-> animationId,
        scheduled |-> scheduled, videos |-> videos, video |-> video,
        videoPlaying |-> videoPlaying, hideTimers |-> hideTimers, tasks |-> tasks]

CommitApp(a) ==
    /\ isInitialized' = a.isInitialized
    /\ contextState' = a.contextState
    /\ resuming' = a.resuming
    /\ currentTheme' = a.currentTheme
    /\ loading' = a.loading
    /\ loadedCount' = a.loadedCount
    /\ totalCount' = a.totalCount
    /\ progress' = a.progress
    /\ callbacks' = a.callbacks
    /\ animationId' = a.animationId
    /\ scheduled' = a.scheduled
    /\ videos' = a.videos
    /\ video' = a.video
    /\ videoPlaying' = a.videoPlaying
    /\ hideTimers' = a.hideTimers
    /\ tasks' = a.tasks

\* getAssetManifest()[theme] is defined.
HasManifest(theme) == theme = "light"

\* The entries loadThemeAssets goes through: the melodies, then the ambients.
ThemeAssets(theme) ==
    IF HasManifest(theme)
    THEN [i \in 1..(Len(ManifestMelodies) + Len(ManifestAmbients)) |->
            IF i <= Len(ManifestMelodies)
            THEN <<"melody", ManifestMelodies[i]>>
            ELSE <<"ambient", ManifestAmbients[i - Len(ManifestMelodies)]>>]
    ELSE <<>>

\* Visualizer.stop: the callback animationId names is cancelled.  animationId,
\* when set, always names a callback that is still scheduled: it is assigned
\* by the callback that has just run, with the id of the one it requests.
VisualizerStop(a) ==
    IF a.animationId # "null"
    THEN [a EXCEPT !.scheduled = @ - 1, !.animationId = "null"]
    ELSE a

\* Visualizer.start: animate() renders a frame and requests the next one.
VisualizerStart(a) == [a EXCEPT !.scheduled = @ + 1, !.animationId = "frame"]

\* VideoBackground.show and hide; hide sets a timeout that removes the element
\* from the layout.
VideoShow(a) == [a EXCEPT !.video = [display |-> "block", opacity |-> 1]]
VideoHide(a) == [a EXCEPT !.video.opacity = 0, !.hideTimers = @ + 1]

\* AudioMixer.resume, up to its await: the request to resume a suspended
\* context.
Resume(a) ==
    IF audioContext # "null" /\ a.contextState = "suspended"
    THEN [a EXCEPT !.resuming = TRUE] ELSE a

\* A step of the page: the mixer becomes m and the rest of the page a.
PageStep(m, a) ==
    /\ Len(Collect(m).srcs) <= MaxPlays
    /\ a.scheduled <= MaxScheduled
    /\ a.hideTimers <= MaxHideTimers
    /\ Commit(Collect(m))
    /\ CommitApp(a)
    /\ fault' = (fault \/ m.threw)
    /\ UNCHANGED <<audioContext, masterGain, analyser, dataArray, stages>>

\* ------------------------------------------------------- the page: setTheme
\* setTheme from the await of loadThemeAssets on: the visualizer is started and
\* loadVideo runs up to its first await.  Without a url for the theme the
\* element is hidden and setTheme is done.  With one, the element gets the url
\* and the handlers of this call; a call still waiting on the handlers it had
\* set is never resumed, and its slot is free again.
AfterAssets(a, t, theme) ==
    LET a1 == VisualizerStart(a) IN
    IF theme \notin a1.videos
    THEN [VideoHide(a1) EXCEPT !.tasks[t] = IdleTask]
    ELSE [a1 EXCEPT !.tasks =
            [u \in 1..MaxTasks |->
                IF u = t THEN [a1.tasks[t] EXCEPT !.pc = "canplay", !.i = 0,
                                                  !.reported = 0]
                ELSE IF a1.tasks[u].pc = "canplay" THEN IdleTask
                ELSE a1.tasks[u]]]

\* setTheme after app.init, up to the first await of loadThemeAssets.  For a
\* theme that is not in the manifest loadThemeAssets returns at once.
SetThemeBody(a, t, theme) ==
    LET a1 == [VisualizerStop(a) EXCEPT !.currentTheme = theme, !.loading = TRUE,
                                        !.callbacks = TRUE]
    IN IF HasManifest(theme)
       THEN [a1 EXCEPT !.totalCount = Len(ThemeAssets(theme)),
                       !.loadedCount = 0,
                       !.tasks[t] = [pc |-> "loading", theme |-> theme, i |-> 1,
                                     reported |-> 0, fired |-> 0]]
       ELSE AfterAssets([a1 EXCEPT !.tasks[t].theme = theme], t, theme)

\* The continuation of "await this.init()" is a microtask: it runs before the
\* browser dispatches any event, timer or frame callback, so these wait for it.
NoMicrotask == \A t \in 1..MaxTasks : tasks[t].pc # "inited"

\* The slot a new setTheme call takes.
FreeSlot(t) ==
    /\ tasks[t].pc = "idle"
    /\ \A u \in 1..MaxTasks : tasks[u].pc = "idle" => t <= u

\* setTheme(theme) is called.  The first call runs app.init, which creates the
\* audio context (the browser decides its state), and is resumed after it.
setTheme(t, theme, st) ==
    /\ FreeSlot(t)
    /\ IF ~isInitialized
       THEN /\ CreateStages
            /\ CommitApp([App EXCEPT !.isInitialized = TRUE,
                                     !.contextState = st,
                                     !.tasks[t] = [IdleTask EXCEPT !.pc = "inited",
                                                                   !.theme = theme]])
            /\ UNCHANGED <<sounds, melodies, activeMelody, srcs, gains, events, fault>>
       ELSE PageStep(DoStopAll(Mixer), SetThemeBody(App, t, theme))
    /\ UNCHANGED last

setThemeAfterInit(t) ==
    /\ tasks[t].pc = "inited"
    /\ PageStep(DoStopAll(Mixer), SetThemeBody(App, t, tasks[t].theme))
    /\ UNCHANGED last

\* loadThemeAssets that returns without calling onComplete.
OnCompleteNotCalled(a, t) == a

\* if (this.onComplete) this.onComplete(): the callback setTheme has set hides
\* the loading overlay; fired counts the calls made by the load of slot t.
OnComplete(a, t) ==
    IF a.callbacks THEN [a EXCEPT !.loading = FALSE, !.tasks[t].fired = @ + 1] ELSE a

\* The load loadThemeAssets awaits settles (see loadSound for what ok stands
\* for): the count, the report, and then either the next load is started or
\* the video url is set, onComplete is called and setTheme goes on.
assetLoaded(t, ok) ==
    /\ NoMicrotask
    /\ tasks[t].pc = "loading"
    /\ LET tk == tasks[t]
           asset == ThemeAssets(tk.theme)[tk.i]
           success == ok /\ ~DecodeCallThrows
           m == IF ~success THEN Mixer
                ELSE IF asset[1] = "melody" THEN RegisterMelody(Mixer, asset[2])
                ELSE RegisterSound(Mixer, asset[2], TRUE)
           lc == IF success THEN loadedCount + 1 ELSE loadedCount
           a1 == [App EXCEPT !.loadedCount = lc,
                             !.progress = IF callbacks THEN <<lc, totalCount>> ELSE @]
           a2 == IF tk.i < Len(ThemeAssets(tk.theme))
                 THEN [a1 EXCEPT !.tasks[t].i = @ + 1, !.tasks[t].reported = lc]
                 ELSE AfterAssets(OnComplete([a1 EXCEPT !.videos = @ \cup {tk.theme}], t),
                                  t, tk.theme)
       IN PageStep(m, a2)
    /\ UNCHANGED last

\* The video element reports that it can play (ok) or that it failed.
videoReady(t, ok) ==
    /\ NoMicrotask
    /\ tasks[t].pc = "canplay"
    /\ PageStep(Mixer, IF ok THEN [VideoShow(App) EXCEPT !.tasks[t].pc = "autoplay"]
                       ELSE [VideoHide(App) EXCEPT !.tasks[t] = IdleTask])
    /\ UNCHANGED last

\* video.play() settles: play() catches a rejection and logs it.
videoPlayed(t, ok) ==
    /\ NoMicrotask
    /\ tasks[t].pc = "autoplay"
    /\ PageStep(Mixer, [App EXCEPT !.videoPlaying = IF ok THEN TRUE ELSE @,
                                   !.tasks[t] = IdleTask])
    /\ UNCHANGED last

\* The timeout of hide() fires.
hideTimeout ==
    /\ NoMicrotask
    /\ hideTimers > 0
    /\ PageStep(Mixer, [App EXCEPT !.video.display = "none", !.hideTimers = @ - 1])
    /\ UNCHANGED last

\* A scheduled frame callback runs: it renders (reading the snapshot buffer)
\* and requests the next frame.
animate ==
    /\ NoMicrotask
    /\ scheduled > 0
    /\ PageStep(Mixer, [App EXCEPT !.animationId = "frame"])
    /\ UNCHANGED last

\* reset(): before app.init this.visualizer is null and the call throws after
\* stopAll.
reset ==
    /\ IF ~isInitialized
       THEN PageStep([DoStopAll(Mixer) EXCEPT !.threw = TRUE], App)
       ELSE PageStep(DoStopAll(Mixer),
                     [VideoHide(VisualizerStop(App)) EXCEPT !.currentTheme = NoId])
    /\ UNCHANGED last

\* AmbientMixerApp.toggleSound: resume() is called and not awaited.
appToggleSound(id) ==
    LET m == DoToggleSound(Mixer, id) IN
    /\ PageStep(m, Resume(App))
    /\ UNCHANGED last

\* AmbientMixerApp.selectMelody: resume() is called and not awaited.
selectMelody(id) ==
    LET m == DoPlayMelody(Mixer, id) IN
    /\ PageStep(m, Resume(App))
    /\ UNCHANGED last

\* An "ended" event is dispatched to the page.
pageOnended == NoMicrotask /\ onended

\* The promise of audioContext.resume() settles: the context runs, or the
\* browser refuses and it stays suspended.
resumeSettled(ok) ==
    /\ NoMicrotask
    /\ resuming
    /\ PageStep(Mixer, [App EXCEPT !.resuming = FALSE,
                                   !.contextState = IF ok THEN "running" ELSE @])
    /\ UNCHANGED last

\* ------------------------------------------------------------ specification
\* The calls of the playback methods and the steps of the audio engine.
Playback ==
    \/ init
    \/ \E id \in SoundIds : playSound(id)
    \/ \E id \in SoundIds : stopSound(id)
    \/ \E id \in SoundIds : toggleSound(id)
    \/ \E id \in SoundIds, volume \in Percents : setVolume(id, volume)
    \/ \E id \in MelodyIds : playMelody(id)
    \/ \E id \in MelodyIds : stopMelody(id)
    \/ getFrequencyData
    \/ stopAll
    \/ \E k \in 1..MaxPlays : naturalEnd(k)
    \/ onended

Next ==
    \/ \E id \in SoundIds, isLoop \in BOOLEAN, ok \in BOOLEAN : loadSound(id, isLoop, ok)
    \/ \E id \in MelodyIds, ok \in BOOLEAN : loadMelody(id, ok)
    \/ Playback

Spec == Init /\ [][Next]_vars

\* The event loop of the page dispatches every queued event: weak fairness of
\* onended.  ENABLED <<onended>>_vars is events # <<>> (a dispatch always
\* shortens the queue), so the fairness condition is written with it.
FairSpec == Spec /\ ([]<>(events = <<>>) \/ []<><<onended>>_vars)

\* The callers that keep the obligation of loadSound/loadMelody: a voice is
\* stopped before its id is loaded again.
NextStopBeforeReload ==
    \/ \E id \in SoundIds, isLoop \in BOOLEAN, ok \in BOOLEAN :
          /\ ~sounds[id].isPlaying
          /\ loadSound(id, isLoop, ok)
    \/ \E id \in MelodyIds, ok \in BOOLEAN :
          /\ ~melodies[id].isPlaying
          /\ loadMelody(id, ok)
    \/ Playback

SpecStopBeforeReload == Init /\ [][NextStopBeforeReload]_vars

\* One ambient voice and the calls that set, read and use its volume.
NextVolume ==
    \/ init
    \/ \E id \in SoundIds, isLoop \in BOOLEAN, ok \in BOOLEAN : loadSound(id, isLoop, ok)
    \/ \E id \in SoundIds : playSound(id)
    \/ \E id \in SoundIds : stopSound(id)
    \/ \E id \in SoundIds, volume \in VolumePercents : setVolume(id, volume)
    \/ \E k \in 1..MaxPlays : naturalEnd(k)
    \/ onended

VolumeSpec == Init /\ [][NextVolume]_vars

\* The page switching themes: setTheme calls, overlapping or not, the events
\* they wait for, reset, and the timers and frame callbacks they leave.
NextTheme ==
    \/ \E t \in 1..MaxTasks, theme \in Themes, st \in {"suspended", "running"} :
          setTheme(t, theme, st)
    \/ \E t \in 1..MaxTasks : setThemeAfterInit(t)
    \/ \E t \in 1..MaxTasks, ok \in BOOLEAN : assetLoaded(t, ok)
    \/ \E t \in 1..MaxTasks, ok \in BOOLEAN : videoReady(t, ok)
    \/ \E t \in 1..MaxTasks, ok \in BOOLEAN : videoPlayed(t, ok)
    \/ hideTimeout
    \/ animate
    \/ reset

ThemeSpec == Init /\ [][NextTheme]_vars

\* The page in use, with a server that delivers every asset and a browser that
\* plays the video: the theme of the manifest is selected, again and again,
\* while sounds are toggled and melodies selected.
NextApp ==
    \/ \E t \in 1..MaxTasks, st \in {"suspended", "running"} : setTheme(t, "light", st)
    \/ \E t \in 1..MaxTasks : setThemeAfterInit(t)
    \/ \E t \in 1..MaxTasks : assetLoaded(t, TRUE)
    \/ \E t \in 1..MaxTasks : videoReady(t, TRUE)
    \/ \E t \in 1..MaxTasks : videoPlayed(t, TRUE)
    \/ animate
    \/ \E id \in SoundIds : appToggleSound(id)
    \/ \E id \in MelodyIds : selectMelody(id)
    \/ \E ok \in BOOLEAN : resumeSettled(ok)
    \/ pageOnended

AppSpec == Init /\ [][NextApp]_vars

\* ------------------------------------------------------------------ claims
\* The source/gain pairs playing the asset of id whose gain node is connected
\* to the analysis stage.
ConnectedPairs(id) ==
    {k \in DOMAIN srcs : srcs[k].buffer = id /\ <<GainNode(k), analyser>> \in edges}

ConnectedMelodyPairs == UNION {ConnectedPairs(id) : id \in MelodyIds}

\* All of the mixer but the record of the last call.
mixerVars == <<audioContext, masterGain, analyser, dataArray, stages, sounds,
               melodies, activeMelody, srcs, gains, edges, events, fault>>

\* C1: in every reachable state at most one melody source/gain pair is
\* connected to the analysis stage, and right after playMelody(b) of a
\* registered b, b is playing and every other melody is stopped and
\* disconnected.
C1_OneMelodyConnected ==
    /\ Cardinality(ConnectedMelodyPairs) <= 1
    /\ (last.op = "playMelody" /\ last.id \in MelodyIds
            /\ melodies[last.id] # NoMelody /\ last.val # "throws")
        => /\ melodies[last.id].isPlaying
           /\ \A a \in MelodyIds \ {last.id} :
                ~melodies[a].isPlaying /\ ConnectedPairs(a) = {}

\* C2: playMelody(id) of an id that is not registered changes nothing of the
\* mixer, whatever is playing.
C2_PlayUnknownMelodyNoOp ==
    [][\A id \in MelodyIds :
          (melodies[id] = NoMelody /\ playMelody(id)) => UNCHANGED mixerVars]_vars

\* C3: right after stopAll no ambient voice has its playing flag set, the
\* active-melody pointer is empty and no melody is playing.
C3_StopAllStopsEverything ==
    last.op = "stopAll" =>
        /\ \A id \in SoundIds : ~sounds[id].isPlaying
        /\ activeMelody = NoId
        /\ \A id \in MelodyIds : ~melodies[id].isPlaying

\* C3 witness: stopAll has just stopped a playing ambient source while a
\* melody is registered.
C3_Witness ==
    /\ last.op = "stopAll"
    /\ \E k \in DOMAIN srcs : srcs[k].state = "stopped" /\ srcs[k].buffer \in SoundIds
    /\ \E id \in MelodyIds : melodies[id] # NoMelody

\* The connections right after initialize: analysis -> master -> output.
InitialTopology == {<<analyser, masterGain>>, <<masterGain, Destination>>}

\* C4: right after stopAll the graph has the connections it had right after
\* initialize and no others.
C4_StopAllRestoresTopology ==
    (last.op = "stopAll" /\ audioContext # "null") => edges = InitialTopology

\* C5: toggleSound of a registered id flips the playing flag of the voice and
\* returns the flag as it is after the call.
C5_ToggleAlternates ==
    [][\A id \in SoundIds :
          (sounds[id] # NoSound /\ toggleSound(id))
          => /\ sounds'[id].isPlaying = ~sounds[id].isPlaying
             /\ last'.val = BoolStr(sounds'[id].isPlaying)]_vars

\* C5 witness: a toggle has just switched a registered voice off.
C5_Witness ==
    /\ last.op = "toggleSound"
    /\ last.val = "false"
    /\ sounds[last.id] # NoSound
    /\ \E k \in DOMAIN srcs : srcs[k].state = "stopped" /\ srcs[k].buffer = last.id

\* C6: playSound, stopSound and toggleSound of an id that is not registered
\* change nothing of the mixer and do not throw, before and after init, and
\* toggleSound returns false.
C6_UnloadedAmbientNoOp ==
    [][\A id \in SoundIds :
          (sounds[id] = NoSound /\ (playSound(id) \/ stopSound(id) \/ toggleSound(id)))
          => /\ UNCHANGED mixerVars
             /\ ~fault'
             /\ last'.val # "throws"
             /\ toggleSound(id) => last'.val = "false"]_vars

\* C6 witness: toggleSound of an unregistered id has returned false before
\* init.
C6_Witness ==
    /\ last.op = "toggleSound"
    /\ last.val = "false"
    /\ sounds[last.id] = NoSound
    /\ audioContext = "null"

\* A source started for the voice of id has reached the end of its buffer and
\* its "ended" event waits to be dispatched.
EndedNaturally(id) ==
    \E k \in DOMAIN srcs :
        srcs[k].state = "finished" /\ srcs[k].onended = id /\ InSeq(k, events)

\* C7: once a source of a voice has reached the end of its buffer, the
\* playing flag of the voice eventually is false; and the completion callback
\* of a looping voice leaves the playing flag as it is.
C7_NaturalEndClearsPlaying ==
    /\ \A id \in SoundIds : EndedNaturally(id) ~> ~sounds[id].isPlaying
    /\ [][\A id \in SoundIds :
            (onended /\ srcs[Head(events)].onended = id /\ sounds[id].isLoop)
            => sounds'[id].isPlaying = sounds[id].isPlaying]_vars

\* C7 witness: the completion callback has run for a voice that nobody
\* stopped (it still holds its source) and the playing flag is false.
C7_Witness ==
    /\ last.op = "onended"
    /\ last.id \in SoundIds
    /\ ~sounds[last.id].isPlaying
    /\ sounds[last.id].source # NullNode
    /\ \E k \in DOMAIN srcs :
          srcs[k].state = "finished" /\ sounds[last.id].source = SourceNode(k)

\* C8: a load whose fetch or decode fails, or that is attempted before init,
\* resolves to false without throwing and changes nothing of the mixer.
C8_FailedLoadChangesNothing ==
    [][/\ \A id \in SoundIds, isLoop \in BOOLEAN :
            (\/ loadSound(id, isLoop, FALSE)
             \/ audioContext = "null" /\ loadSound(id, isLoop, TRUE))
            => (UNCHANGED mixerVars /\ last'.val = "false")
       /\ \A id \in MelodyIds :
            (\/ loadMelody(id, FALSE)
             \/ audioContext = "null" /\ loadMelody(id, TRUE))
            => (UNCHANGED mixerVars /\ last'.val = "false")]_vars

\* C8 witness: a load of an unregistered id has failed after init while
\* another voice is playing, and the id is still unregistered.
C8_Witness ==
    /\ last.op = "loadMelody"
    /\ last.val = "false"
    /\ audioContext # "null"
    /\ melodies[last.id] = NoMelody
    /\ \E id \in MelodyIds : melodies[id].isPlaying

\* C9: playMelody(a) while a is the playing active melody leaves exactly one
\* pair of a connected to the analysis stage, a playing and a active.
C9_RestartLeavesOneInstance ==
    [][\A a \in MelodyIds :
          (activeMelody = a /\ melodies[a].isPlaying /\ playMelody(a)
              /\ last'.val # "throws")
          => /\ Cardinality({k \in DOMAIN srcs' : /\ srcs'[k].buffer = a
                                                  /\ <<GainNode(k), analyser'>> \in edges'}) = 1
             /\ melodies'[a].isPlaying
             /\ activeMelody' = a]_vars

StageNodes(kind) == {s \in stages : s.node[1] = kind}

\* C10: init on an initialized mixer changes nothing; no stage exists before
\* init and from init on there is exactly one analysis stage and one master
\* gain stage, wired analysis -> master -> output.
C10_InitIdempotent ==
    /\ [](audioContext = "null" => stages = {})
    /\ [](audioContext # "null" =>
            /\ Cardinality(StageNodes("analyser")) = 1
            /\ Cardinality(StageNodes("masterGain")) = 1
            /\ \E s \in stages : s.node = analyser
            /\ \E s \in stages : s.node = masterGain
            /\ InitialTopology \subseteq edges
            /\ \A e \in edges : e[1] \in {analyser, masterGain} => e \in InitialTopology)
    /\ [][(audioContext # "null" /\ init) => UNCHANGED mixerVars]_vars

\* C10 witness: init has returned while a voice started after the first init
\* is playing.
C10_Witness ==
    /\ last.op = "init"
    /\ \E id \in SoundIds : sounds[id].isPlaying
    /\ \E id \in MelodyIds : melodies[id].isPlaying

\* C11: setVolume(id, percent) of a registered voice stores percent hundredths
\* on the voice, playing or not, and ramps its live gain node to it; every
\* playSound that starts a source starts the gain node at the stored level;
\* a voice just loaded has the level 0.7; all levels stay within [0, 1].
C11_VolumeStoredAndUsed ==
    /\ [](\A id \in SoundIds : sounds[id].volume \in 0..100)
    /\ [](\A k \in DOMAIN gains : gains[k] \in 0..100)
    /\ [][\A id \in SoundIds :
            /\ \A volume \in VolumePercents :
                  (sounds[id] # NoSound /\ setVolume(id, volume))
                  => /\ sounds'[id].volume = volume
                     /\ sounds'[id].isPlaying = sounds[id].isPlaying
                     /\ sounds'[id].gainNode # NullNode
                          => gains'[sounds'[id].gainNode[2]] = volume
            /\ (sounds[id] # NoSound /\ ~sounds[id].isPlaying /\ playSound(id))
                  => /\ sounds'[id].isPlaying
                     /\ gains'[sounds'[id].gainNode[2]] = sounds[id].volume
            /\ \A isLoop \in BOOLEAN :
                  (audioContext # "null" /\ loadSound(id, isLoop, TRUE))
                  => sounds'[id].volume = DefaultVolume]_vars

\* C11 witness: a voice whose level was set to 100 while it was stopped has
\* been started and its gain node is at 100.
C11_Witness ==
    /\ last.op = "playSound"
    /\ sounds[last.id].isPlaying
    /\ sounds[last.id].volume = 100
    /\ gains[sounds[last.id].gainNode[2]] = 100

\* C12: every progress report of a theme load carries a loaded count that is
\* not below the one this load reported before and not above the total, and
\* the total is the number of melodies and ambients of the theme being
\* loaded; also when two loads of the same loader overlap.
C12_ProgressMonotonicBounded ==
    [][\A t \in 1..MaxTasks, ok \in BOOLEAN :
          assetLoaded(t, ok)
          => /\ progress' = <<loadedCount', totalCount'>>
             /\ progress'[1] >= tasks[t].reported
             /\ progress'[1] <= progress'[2]
             /\ progress'[2] = Len(ThemeAssets(tasks[t].theme))]_vars

\* C13: a load of a theme of the manifest calls onComplete exactly once: not
\* while an asset is still to be attempted, and in the step of the last
\* attempt, after its report; whichever loads failed.
C13_CompleteFiresOnce ==
    /\ [](\A t \in 1..MaxTasks :
            /\ tasks[t].pc = "loading" => tasks[t].fired = 0
            /\ tasks[t].pc \in {"canplay", "autoplay"} => tasks[t].fired = 1)
    /\ [][\A t \in 1..MaxTasks, ok \in BOOLEAN :
            assetLoaded(t, ok)
            => IF tasks[t].i = Len(ThemeAssets(tasks[t].theme))
               THEN /\ tasks'[t].pc = "canplay"
                    /\ tasks'[t].fired = 1
                    /\ ~loading'
                    /\ progress' = <<loadedCount', totalCount'>>
               ELSE /\ tasks'[t].pc = "loading"
                    /\ tasks'[t].fired = 0]_vars

\* C13 witness: a load all of whose assets failed has called onComplete and
\* waits for the video.
C13_Witness ==
    \E t \in 1..MaxTasks :
        /\ tasks[t].pc = "canplay"
        /\ tasks[t].fired = 1
        /\ progress = <<0, Len(ThemeAssets(tasks[t].theme))>>
        /\ ~loading

\* C14: when video.play() is rejected, when the video fails to load and when
\* the theme has no video url, loadVideo leaves the element hidden and nothing
\* is thrown.
C14_VideoFailureHides ==
    [][\A t \in 1..MaxTasks :
          /\ (videoPlayed(t, FALSE) \/ videoReady(t, FALSE))
                => (video'.opacity = 0 /\ fault' = fault)
          /\ \A theme \in Themes, st \in {"suspended", "running"} :
                (isInitialized /\ ~HasManifest(theme) /\ setTheme(t, theme, st))
                => (video'.opacity = 0 /\ fault' = fault)]_vars

\* C15: getFrequencyData returns null before init and the snapshot buffer
\* after it; the buffer is created by init with 128 bins and is never
\* replaced, in particular not by getFrequencyData.
C15_SampleBuffer ==
    /\ [](last.op = "getFrequencyData"
            => last.val = (IF audioContext = "null" THEN "null" ELSE "dataArray"))
    /\ [](dataArray = (IF audioContext = "null" THEN <<"null", 0>>
                       ELSE <<"Uint8Array", 128>>))
    /\ [][getFrequencyData => UNCHANGED mixerVars]_vars
    /\ [][audioContext # "null" => dataArray' = dataArray]_vars

\* C15 witness: getFrequencyData has returned the buffer while a voice plays.
C15_Witness ==
    /\ last.op = "getFrequencyData"
    /\ last.val = "dataArray"
    /\ \E id \in SoundIds : sounds[id].isPlaying

\* C16: a melody whose playing flag is set is the active melody; stopMelody
\* of a playing melody clears its flag and the pointer; stopMelody of a
\* melody that is not playing changes nothing.
C16_PlayingMelodyIsActive ==
    /\ [](\A id \in MelodyIds : melodies[id].isPlaying => activeMelody = id)
    /\ [][\A id \in MelodyIds :
            stopMelody(id)
            => IF melodies[id].isPlaying
               THEN ~melodies'[id].isPlaying /\ activeMelody' = NoId
               ELSE UNCHANGED mixerVars]_vars

\* C16 witness: stopMelody has returned for a registered melody that holds no
\* node, the pointer is empty, and a source of that melody, orphaned by a
\* load, still plays.
C16_Witness ==
    /\ last.op = "stopMelody"
    /\ activeMelody = NoId
    /\ melodies[last.id] # NoMelody
    /\ melodies[last.id].source = NullNode
    /\ \E k \in DOMAIN srcs : srcs[k].state = "playing" /\ srcs[k].buffer = last.id

\* C17: a registered ambient voice whose playing flag is false holds no
\* source or gain node and has no gain node connected to the analysis stage;
\* setVolume of such a voice changes the gain of no node.
C17_StoppedVoiceHoldsNoNodes ==
    /\ [](\A id \in SoundIds :
            (sounds[id] # NoSound /\ ~sounds[id].isPlaying)
            => /\ sounds[id].source = NullNode
               /\ sounds[id].gainNode = NullNode
               /\ ConnectedPairs(id) = {})
    /\ [][\A id \in SoundIds, volume \in Percents :
            (~sounds[id].isPlaying /\ setVolume(id, volume)) => gains' = gains]_vars

\* Every playing source is held by the voice registered under its id.
NoLeakedSource ==
    \A k \in DOMAIN srcs :
        srcs[k].state = "playing"
        => \/ \E id \in SoundIds : sounds[id].source = SourceNode(k)
           \/ \E id \in MelodyIds : melodies[id].source = SourceNode(k)

\* C18: no load made by setTheme registers an id whose voice is playing, and
\* no playing source is ever left without a registered voice holding it.
C18_NoReloadWhilePlaying ==
    /\ [][\A t \in 1..MaxTasks :
            assetLoaded(t, TRUE)
            => LET asset == ThemeAssets(tasks[t].theme)[tasks[t].i]
               IN IF asset[1] = "melody" THEN ~melodies[asset[2]].isPlaying
                  ELSE ~sounds[asset[2]].isPlaying]_vars
    /\ []NoLeakedSource

\* C19: at most one frame callback is scheduled, and none while animationId
\* is null (after stop and before the next start).
C19_OneRenderLoop ==
    /\ scheduled <= 1
    /\ animationId = "null" => scheduled = 0

\* C20: when toggleSound or selectMelody of the page starts a source, the
\* audio context is running.
C20_ResumedBeforeStart ==
    [][/\ \A id \in SoundIds :
            (appToggleSound(id) /\ ~sounds[id].isPlaying /\ sounds'[id].isPlaying)
            => (contextState = "running" /\ ~resuming')
       /\ \A id \in MelodyIds :
            (selectMelody(id) /\ melodies'[id].isPlaying)
            => (contextState = "running" /\ ~resuming')]_vars

\* C21: a source started for an ambient voice that is still running and
\* connected to the analysis stage has the playing flag of its voice set, so
\* no voice ever has two running sources; in particular the "ended" event of
\* a source that was stopped, dispatched after the voice was started again,
\* leaves the flag set.
C21_PlayingFlagTracksSource ==
    \A id \in SoundIds :
        /\ \A k \in DOMAIN srcs :
              (/\ srcs[k].state = "playing"
               /\ srcs[k].onended = id
               /\ <<GainNode(k), analyser>> \in edges)
              => sounds[id].isPlaying
        /\ Cardinality({k \in DOMAIN srcs : /\ srcs[k].state = "playing"
                                            /\ srcs[k].onended = id}) <= 1

\* C22: when the asset loading step of a setTheme call has finished, for a
\* theme of the manifest or not and whichever loads failed, the loading
\* overlay is hidden.
C22_LoadingOverlayHidden ==
    [][\A t \in 1..MaxTasks :
          /\ \A theme \in Themes, st \in {"suspended", "running"} :
                (isInitialized /\ ~HasManifest(theme) /\ setTheme(t, theme, st))
                => ~loading'
          /\ (~HasManifest(tasks[t].theme) /\ setThemeAfterInit(t)) => ~loading'
          /\ \A ok \in BOOLEAN :
                (/\ tasks[t].i = Len(ThemeAssets(tasks[t].theme))
                 /\ assetLoaded(t, ok))
                => ~loading']_vars

====
